---- MODULE Spec2Model ----
(***************************************************************************)
(* A model of aws-flex-deploy: the entry point (app.py) which validates    *)
(* the YAML configuration and assembles LambdaStack, ApiGwStack and        *)
(* GlueJobStack in that order before app.synth(), and ApiGwStack's         *)
(* resource tree construction (cdk_stacks/apigw_stack.py).                 *)
(*                                                                         *)
(* A path string is a sequence of tokens: one token per character, the     *)
(* wildcard marker "{proxy+}" being one token that holds no "/".           *)
(* A construct tree keeps, per scope, the ids of the constructs created in *)
(* it; creating a construct whose id is taken in its scope raises.         *)
(***************************************************************************)
EXTENDS Integers, Sequences, FiniteSets, TLC

\* Longest resources_methods list the configurations enumerate.
MaxEntries == 2

Root == 0
None == -1

SLASH == "/"
PROXY == "{proxy+}"

--------------------------------------------------------------------------
(* str.split('/'), str.upper(), str.replace('/', '_')                     *)

RECURSIVE SplitFrom(_, _)
\* SplitFrom(s, cur): the parts of cur ++ s, cur being the part under way.
SplitFrom(s, cur) ==
    IF s = <<>> THEN <<cur>>
    ELSE IF Head(s) = SLASH THEN <<cur>> \o SplitFrom(Tail(s), <<>>)
    ELSE SplitFrom(Tail(s), Append(cur, Head(s)))

Split(s) == SplitFrom(s, <<>>)

UpperChar(c) ==
    CASE c = "a" -> "A"
      [] c = "b" -> "B"
      [] c = PROXY -> "{PROXY+}"
      [] OTHER -> c

Upper(s) == [i \in 1..Len(s) |-> UpperChar(s[i])]

ReplaceSlash(s) == [i \in 1..Len(s) |-> IF s[i] = SLASH THEN "_" ELSE s[i]]

\* The id without str.upper(): the path as it is written.
LambdaStackIdVerbatim(resource_name) == <<"LAMBDA_">> \o ReplaceSlash(resource_name)

LambdaStackId(resource_name) == <<"LAMBDA_">> \o ReplaceSlash(Upper(resource_name))

--------------------------------------------------------------------------
(* The construct tree of one ApiGwStack.                                  *)
(*   nodes   : the Resource constructs, node i has id i, the root is 0    *)
(*   methods : the Method constructs in creation order                    *)
(*   imports : the ids of the functions imported into the stack scope     *)

EmptyTree == [nodes |-> <<>>, methods |-> <<>>, imports |-> <<>>]

NodeIds(t) == 1..Len(t.nodes)

Children(t, node) == {i \in NodeIds(t) : t.nodes[i].parent = node}

MethodsOn(t, node) == {i \in 1..Len(t.methods) : t.methods[i].node = node}

\* The construct ids taken in the scope of a resource: its child resources
\* (id = path part) and its methods (id = the verb).
ScopeIds(t, node) ==
    {t.nodes[i].part : i \in Children(t, node)}
        \cup {<<t.methods[i].verb>> : i \in MethodsOn(t, node)}

\* validateResourcePathPart: a part is a non-empty run of name characters,
\* or such a run in braces, as the wildcard marker is.
ValidPart(part) == part # <<>>

\* get_resource without the lookup: no child is ever found.
get_resource_none(t, node, part) == None

\* IResource.get_resource(path_part): the child registered under that part.
get_resource(t, node, part) ==
    LET found == {i \in Children(t, node) : t.nodes[i].part = part}
    IN  IF found = {} THEN None
        ELSE CHOOSE i \in found : \A j \in found : i <= j

\* IResource.add_resource(path_part): a new Resource construct with id
\* path_part in the scope of node.
add_resource(t, node, part) ==
    IF ~ValidPart(part) \/ part \in ScopeIds(t, node)
    THEN [ok |-> FALSE, t |-> t, node |-> None]
    ELSE [ok |-> TRUE,
          t |-> [t EXCEPT !.nodes = Append(@, [parent |-> node, part |-> part])],
          node |-> Len(t.nodes) + 1]

\* add_method that replaces nothing and refuses nothing: a verb may be added
\* again.
add_method_again(t, node, m) == [ok |-> TRUE, t |-> [t EXCEPT !.methods = Append(@, m)]]

\* IResource.add_method(http_method, ...): a new Method construct with id
\* http_method in the scope of node.
add_method(t, node, m) ==
    IF <<m.verb>> \in ScopeIds(t, node)
    THEN [ok |-> FALSE, t |-> t]
    ELSE [ok |-> TRUE, t |-> [t EXCEPT !.methods = Append(@, m)]]

\* _lambda.Function.from_function_arn(self, id, ...): a construct with that
\* id in the scope of the stack.
from_function_arn(t, id) ==
    IF \E i \in 1..Len(t.imports) : t.imports[i] = id
    THEN [ok |-> FALSE, t |-> t]
    ELSE [ok |-> TRUE, t |-> [t EXCEPT !.imports = Append(@, id)]]

--------------------------------------------------------------------------
(* ApiGwStack.add_methods, create_api_resource, create_proxy_api_resource *)

\* Where an entry stopped: "done" when it ran to its end, otherwise the call
\* that raised.
Outcome(ok, t, node, target, stage) ==
    [ok |-> ok, t |-> t, node |-> node, target |-> target, stage |-> stage]

\* add_methods handing api_key_required to the OPTIONS method as well.
add_methods_keyed_preflight(t, id, resource, node, method, integration_type, integration_value, api_key_required) ==
    LET imp == IF integration_type = "http_proxy"
               THEN [ok |-> TRUE, t |-> t]
               ELSE from_function_arn(t, id)
        primary == add_method(imp.t, resource,
                       [node |-> resource, verb |-> method,
                        itype |-> integration_type,
                        api_key_required |-> api_key_required,
                        target |-> integration_value])
        options == add_method(primary.t, resource,
                       [node |-> resource, verb |-> "OPTIONS",
                        itype |-> "mock",
                        api_key_required |-> api_key_required,
                        target |-> "mock"])
    IN  IF ~imp.ok THEN Outcome(FALSE, imp.t, node, resource, "import")
        ELSE IF ~primary.ok THEN Outcome(FALSE, primary.t, node, resource, "method")
        ELSE IF ~options.ok THEN Outcome(FALSE, options.t, node, resource, "preflight")
        ELSE Outcome(TRUE, options.t, node, resource, "done")

\* add_methods: the integration, then the primary method, then the OPTIONS
\* method, each on `resource`; the first call that raises ends it.
add_methods(t, id, resource, node, method, integration_type, integration_value, api_key_required) ==
    LET imp == IF integration_type = "http_proxy"
               THEN [ok |-> TRUE, t |-> t]
               ELSE from_function_arn(t, id)
        primary == add_method(imp.t, resource,
                       [node |-> resource, verb |-> method,
                        itype |-> integration_type,
                        api_key_required |-> api_key_required,
                        target |-> integration_value])
        options == add_method(primary.t, resource,
                       [node |-> resource, verb |-> "OPTIONS",
                        itype |-> "mock",
                        api_key_required |-> FALSE,
                        target |-> "mock"])
    IN  IF ~imp.ok THEN Outcome(FALSE, imp.t, node, resource, "import")
        ELSE IF ~primary.ok THEN Outcome(FALSE, primary.t, node, resource, "method")
        ELSE IF ~options.ok THEN Outcome(FALSE, options.t, node, resource, "preflight")
        ELSE Outcome(TRUE, options.t, node, resource, "done")

RECURSIVE Walk(_, _, _)
\* The loop over parts of both create functions: descend into the child
\* get_resource finds, or into the one add_resource creates.
Walk(t, api_resource, parts) ==
    IF parts = <<>> THEN [ok |-> TRUE, t |-> t, node |-> api_resource]
    ELSE LET existing_resource == get_resource(t, api_resource, Head(parts))
         IN  IF existing_resource # None
             THEN Walk(t, existing_resource, Tail(parts))
             ELSE LET added == add_resource(t, api_resource, Head(parts))
                  IN  IF ~added.ok
                      THEN [ok |-> FALSE, t |-> added.t, node |-> None]
                      ELSE Walk(added.t, added.node, Tail(parts))

create_api_resource(t, resource_name, method, integration_type, integration_value, api_key_required) ==
    LET parts == Split(resource_name)
        w == Walk(t, Root, parts)
    IN  IF ~w.ok THEN Outcome(FALSE, w.t, None, None, "walk")
        ELSE add_methods(w.t, LambdaStackId(resource_name), w.node, w.node,
                         method, integration_type, integration_value,
                         api_key_required)

\* create_proxy_api_resource without the else branch: the handler goes on
\* the resolved node whatever its last part is.
create_proxy_no_child(t, resource_name, method, http_proxy_url, api_key_required) ==
    LET parts == Split(resource_name)
        w == Walk(t, Root, parts)
    IN  IF ~w.ok THEN Outcome(FALSE, w.t, None, None, "walk")
        ELSE add_methods(w.t, <<"HTTP_PROXY_">> \o ReplaceSlash(Upper(resource_name)),
                         w.node, w.node, method, "http_proxy", http_proxy_url,
                         api_key_required)

create_proxy_api_resource(t, resource_name, method, http_proxy_url, api_key_required) ==
    LET parts == Split(resource_name)
        w == Walk(t, Root, parts)
    IN  IF ~w.ok THEN Outcome(FALSE, w.t, None, None, "walk")
        ELSE IF parts[Len(parts)] = <<PROXY>>
        THEN add_methods(w.t, <<"HTTP_PROXY_">> \o ReplaceSlash(Upper(resource_name)),
                         w.node, w.node, method, "http_proxy", http_proxy_url,
                         api_key_required)
        ELSE LET proxy_resource == add_resource(w.t, w.node, <<PROXY>>)
             IN  IF ~proxy_resource.ok
                 THEN Outcome(FALSE, proxy_resource.t, w.node, None, "child")
                 ELSE add_methods(proxy_resource.t,
                          <<"HTTP_PROXY_">> \o ReplaceSlash(Upper(resource_name))
                              \o <<"_CHILD">>,
                          proxy_resource.node, w.node, method, "http_proxy",
                          http_proxy_url, api_key_required)

\* The loop body reading http_proxy_url with .get(): the entry is resolved
\* before the missing URL is noticed.
ProcessEntryLateUrl(t, resource_method, api_key_required) ==
    IF resource_method.form = "dict" /\ resource_method.integration_type = "http_proxy"
    THEN LET r == create_proxy_api_resource(t, resource_method.path,
                      resource_method.method, resource_method.http_proxy_url,
                      api_key_required)
         IN  IF resource_method.http_proxy_url = "absent"
             THEN Outcome(FALSE, r.t, r.node, r.target, "url")
             ELSE r
    ELSE create_api_resource(t, resource_method.path, resource_method.method,
             "lambda", "project_arn", api_key_required)

\* The loop body that hands the flag to the direct entries only.
ProcessEntryProxyNoKey(t, resource_method, api_key_required) ==
    IF resource_method.form = "dict" /\ resource_method.integration_type = "http_proxy"
    THEN IF resource_method.http_proxy_url = "absent"
         THEN Outcome(FALSE, t, None, None, "url")
         ELSE create_proxy_api_resource(t, resource_method.path,
                  resource_method.method, resource_method.http_proxy_url, FALSE)
    ELSE create_api_resource(t, resource_method.path, resource_method.method,
             "lambda",
             IF resource_method.lambda_function_arn = "absent"
             THEN "project_arn" ELSE resource_method.lambda_function_arn,
             api_key_required)

\* One iteration of the loop over resources_methods.  An entry is
\*   [form: "list" | "dict", path, method, integration_type, http_proxy_url,
\*    lambda_function_arn], a key the entry does not hold being "absent".
ProcessEntry(t, resource_method, api_key_required) ==
    IF resource_method.form = "dict"
    THEN LET integration_type ==
                 IF resource_method.integration_type = "absent" THEN "lambda"
                 ELSE resource_method.integration_type
         IN  IF integration_type = "http_proxy"
             THEN IF resource_method.http_proxy_url = "absent"
                  THEN Outcome(FALSE, t, None, None, "url")
                  ELSE create_proxy_api_resource(t, resource_method.path,
                           resource_method.method, resource_method.http_proxy_url,
                           api_key_required)
             ELSE create_api_resource(t, resource_method.path,
                      resource_method.method, "lambda",
                      IF resource_method.lambda_function_arn = "absent"
                      THEN "project_arn" ELSE resource_method.lambda_function_arn,
                      api_key_required)
    ELSE create_api_resource(t, resource_method.path, resource_method.method,
             "lambda", "project_arn", api_key_required)

--------------------------------------------------------------------------
(* LambdaStack.__init__ and GlueJobStack.__init__                         *)

\* The defaults of role_config.get('ids', ...) and
\* role_config.get('managed_policy_arns', ...).
DefaultIds == <<"PolicyBasic">>

DefaultArns == <<"arn:aws:iam::aws:policy/service-role/AWSLambdaBasicExecutionRole">>

\* zip(ids, managed_policy_arns) of two lists of one length.
Zip(ids, arns) == [i \in 1..Len(ids) |-> [id |-> ids[i], arn |-> arns[i]]]

NoLambda == [ok |-> FALSE, layers |-> 0, role |-> FALSE, policies |-> <<>>, vpc |-> FALSE, security_group |-> FALSE, vpc_subnets |-> FALSE, functions |-> 0, function_name |-> "absent", handler |-> "absent", s3_trigger |-> FALSE, permission |-> FALSE]

\* LambdaStack.__init__ building the security group and the subnet
\* selection whether or not a vpc_id is given.
LambdaAssembleNetworked(project_config) ==
    LET role_config == project_config.role
        ids == IF role_config.block /\ role_config.ids_given
               THEN role_config.ids ELSE DefaultIds
        managed_policy_arns ==
               IF role_config.block /\ role_config.arns_given
               THEN role_config.managed_policy_arns ELSE DefaultArns
        layers == IF project_config.bucket_layer_name THEN project_config.layers ELSE 0
        with_role == [NoLambda EXCEPT !.layers = layers, !.role = TRUE]
    IN  IF Len(ids) # Len(managed_policy_arns) THEN with_role
        ELSE LET networked == [with_role EXCEPT !.policies = Zip(ids, managed_policy_arns), !.vpc = project_config.vpc_id # "absent", !.security_group = TRUE, !.vpc_subnets = TRUE]
             IN  IF project_config.code_from_asset = "absent" \/ project_config.function_handler = "absent"
                 THEN networked
                 ELSE [networked EXCEPT !.ok = TRUE, !.functions = 1, !.function_name = IF project_config.lambda_function_name = "absent" THEN "DefaultLambdaFunction" ELSE project_config.lambda_function_name, !.handler = project_config.function_handler, !.s3_trigger = project_config.s3_trigger, !.permission = project_config.add_permission_eventbridge]

\* LambdaStack.__init__: the layers, the role (created before the lengths
\* of ids and managed_policy_arns are compared) and its managed policies,
\* the networking only for a vpc_id, the one function (Code.from_asset and
\* the handler must be strings), then the trigger and the permission.
LambdaAssemble(project_config) ==
    LET role_config == project_config.role
        ids == IF role_config.block /\ role_config.ids_given
               THEN role_config.ids ELSE DefaultIds
        managed_policy_arns ==
               IF role_config.block /\ role_config.arns_given
               THEN role_config.managed_policy_arns ELSE DefaultArns
        layers == IF project_config.bucket_layer_name THEN project_config.layers ELSE 0
        with_role == [NoLambda EXCEPT !.layers = layers, !.role = TRUE]
        vpc == project_config.vpc_id # "absent"
    IN  IF Len(ids) # Len(managed_policy_arns) THEN with_role
        ELSE LET networked == [with_role EXCEPT !.policies = Zip(ids, managed_policy_arns), !.vpc = vpc, !.security_group = vpc, !.vpc_subnets = vpc]
             IN  IF project_config.code_from_asset = "absent" \/ project_config.function_handler = "absent"
                 THEN [networked EXCEPT !.vpc_subnets = FALSE]
                 ELSE [networked EXCEPT !.ok = TRUE, !.functions = 1, !.function_name = IF project_config.lambda_function_name = "absent" THEN "DefaultLambdaFunction" ELSE project_config.lambda_function_name, !.handler = project_config.function_handler, !.s3_trigger = project_config.s3_trigger, !.permission = project_config.add_permission_eventbridge]

RECURSIVE GlueConnections(_, _)
\* The loop over connections.create: the names of the connections created,
\* and the error that stopped it: an entry without name or connection_type
\* (ValueError), or a name whose construct id GlueConnection<name> is taken.
GlueConnections(create, names) ==
    IF create = <<>> THEN [ok |-> TRUE, error |-> "none", names |-> names]
    ELSE IF Head(create).name = "" \/ Head(create).connection_type = ""
    THEN [ok |-> FALSE, error |-> "ValueError", names |-> names]
    ELSE IF \E i \in 1..Len(names) : names[i] = Head(create).name
    THEN [ok |-> FALSE, error |-> "RuntimeError", names |-> names]
    ELSE GlueConnections(Tail(create), Append(names, Head(create).name))

RECURSIVE Join(_)
\* ",".join(list): a value is a sequence of tokens, "," being one.
Join(list) ==
    IF list = <<>> THEN <<>>
    ELSE IF Len(list) = 1 THEN <<Head(list)>>
    ELSE <<Head(list), ",">> \o Join(Tail(list))

\* The keys of default_arguments the list options stand for.
ArgKeys == {"--additional-python-modules", "--extra-py-files", "--extra-jars", "--extra-files"}

\* The list option a key is derived from.
ListOf(project_config, key) ==
    CASE key = "--additional-python-modules" -> project_config.additional_python_modules
      [] key = "--extra-py-files" -> project_config.extra_py_files
      [] key = "--extra-jars" -> project_config.extra_jars
      [] key = "--extra-files" -> project_config.extra_files

\* default_arguments as CfnJob gets it: the configured mapping, and for
\* each list option that is not empty and whose key the mapping lacks, the
\* joined list.  (An empty mapping is passed as None.)
DefaultArguments(project_config) ==
    LET given == project_config.default_arguments
        derived == {key \in ArgKeys : ListOf(project_config, key) # <<>>}
    IN  [key \in (DOMAIN given) \cup derived |->
            IF key \in DOMAIN given THEN given[key]
            ELSE Join(ListOf(project_config, key))]

NoArguments == [key \in {} |-> <<>>]

NoGlue == [ok |-> FALSE, error |-> "none", role |-> FALSE, created |-> <<>>, job |-> FALSE, connections |-> <<>>, default_arguments |-> NoArguments]

\* GlueJobStack.__init__ with CfnJob built before the loop over
\* connections.create.
GlueAssembleJobFirst(project_config) ==
    LET role_ok == project_config.role_arn
                       \/ project_config.role_ids = project_config.role_arns
        script_ok == project_config.script_location
                       \/ project_config.local_script_path
        conns == GlueConnections(project_config.create, <<>>)
        names == SelectSeq(conns.names \o project_config.use, LAMBDA n : n # "")
        with_role == [NoGlue EXCEPT !.role = TRUE]
    IN  IF ~role_ok THEN [with_role EXCEPT !.error = "ValueError"]
        ELSE IF ~script_ok THEN [with_role EXCEPT !.error = "ValueError"]
        ELSE IF ~conns.ok
        THEN [with_role EXCEPT !.error = conns.error, !.created = conns.names, !.job = TRUE, !.default_arguments = DefaultArguments(project_config)]
        ELSE [with_role EXCEPT !.ok = TRUE, !.created = conns.names, !.job = TRUE, !.connections = names, !.default_arguments = DefaultArguments(project_config)]

\* GlueJobStack.__init__: the role (imported by role_arn, or created, and
\* then the lengths of ids and managed_policy_arns compared), the script,
\* the connections, the default arguments, then the job.
GlueAssemble(project_config) ==
    LET role_ok == project_config.role_arn
                       \/ project_config.role_ids = project_config.role_arns
        script_ok == project_config.script_location
                       \/ project_config.local_script_path
        conns == GlueConnections(project_config.create, <<>>)
        names == SelectSeq(conns.names \o project_config.use, LAMBDA n : n # "")
        with_role == [NoGlue EXCEPT !.role = TRUE]
    IN  IF ~role_ok THEN [with_role EXCEPT !.error = "ValueError"]
        ELSE IF ~script_ok THEN [with_role EXCEPT !.error = "ValueError"]
        ELSE IF ~conns.ok
        THEN [with_role EXCEPT !.error = conns.error, !.created = conns.names]
        ELSE [with_role EXCEPT !.ok = TRUE, !.created = conns.names, !.job = TRUE, !.connections = names, !.default_arguments = DefaultArguments(project_config)]

--------------------------------------------------------------------------
(* The configurations the model runs on.                                  *)

Verbs == {"GET", "POST"}

P_a == <<"a">>
P_ab == <<"a", SLASH, "b">>
P_ap == <<"a", SLASH, PROXY>>
P_apb == <<"a", SLASH, PROXY, SLASH, "b">>

ListEntry(path, method) == [form |-> "list", path |-> path, method |-> method, integration_type |-> "absent", http_proxy_url |-> "absent", lambda_function_arn |-> "absent"]

DictEntry(path, method, integration_type, http_proxy_url, lambda_function_arn) == [form |-> "dict", path |-> path, method |-> method, integration_type |-> integration_type, http_proxy_url |-> http_proxy_url, lambda_function_arn |-> lambda_function_arn]

Entries ==
    {ListEntry(p, m) : p \in {P_a, P_ab, P_ap, P_apb}, m \in Verbs}
        \cup {DictEntry(P_ab, "GET", "absent", "absent", "entry_arn"),
              DictEntry(P_a, "POST", "lambda", "absent", "absent")}
        \cup {DictEntry(p, m, "http_proxy", "url", "absent") :
                  p \in {P_a, P_ab, P_ap}, m \in Verbs}
        \cup {DictEntry(P_ab, "GET", "http_proxy", "absent", "absent"),
              DictEntry(P_ap, "POST", "http_proxy", "absent", "absent")}

\* Paths on the edges of str.split and of the import id: the empty path, a
\* trailing, a leading and a doubled "/", an upper-case twin of "a" and an
\* underscore twin of "a/b".
P_empty == <<>>
P_trail == <<"a", SLASH>>
P_lead == <<SLASH, "a">>
P_double == <<"a", SLASH, SLASH, "b">>
P_A == <<"A">>
P_a_b == <<"a", "_", "b">>

EdgeEntries ==
    {ListEntry(p, "GET") : p \in {P_a, P_ab, P_A, P_a_b, P_empty, P_trail, P_lead, P_double}}
        \cup {ListEntry(P_a, "POST"), ListEntry(P_a, "OPTIONS")}
        \cup {DictEntry(p, "GET", "http_proxy", "url", "absent") :
                  p \in {P_a, P_empty, P_trail}}

RECURSIVE SeqsUpTo(_, _)
SeqsUpTo(S, n) ==
    IF n = 0 THEN {<<>>}
    ELSE LET shorter == SeqsUpTo(S, n - 1)
         IN  shorter \cup {Append(q, x) : q \in {r \in shorter : Len(r) = n - 1}, x \in S}

\* api_key_config: block says whether the group holds the key at all.
KeyConfigs == [block : BOOLEAN, enable_api_key : BOOLEAN, api_key_id : BOOLEAN, api_key_name : BOOLEAN, usage_plan : BOOLEAN]

KeyOff == [block |-> FALSE, enable_api_key |-> FALSE, api_key_id |-> FALSE, api_key_name |-> FALSE, usage_plan |-> FALSE]

KeyImport == [block |-> TRUE, enable_api_key |-> TRUE, api_key_id |-> TRUE, api_key_name |-> FALSE, usage_plan |-> TRUE]

NoRole == [block |-> FALSE, ids_given |-> FALSE, ids |-> <<>>, arns_given |-> FALSE, managed_policy_arns |-> <<>>]

\* The project_config of the unit test: the three keys and nothing else.
LambdaOk == [lambda_function_name |-> "test_fn", code_from_asset |-> "_lambda", function_handler |-> "lambda_function.lambda_handler", vpc_id |-> "absent", bucket_layer_name |-> FALSE, layers |-> 0, role |-> NoRole, s3_trigger |-> FALSE, add_permission_eventbridge |-> FALSE]

TwoIds == [NoRole EXCEPT !.block = TRUE, !.ids_given = TRUE, !.ids = <<"P1", "P2">>]

LambdaConfigs == {LambdaOk, [LambdaOk EXCEPT !.vpc_id = "vpc-1"], [LambdaOk EXCEPT !.role = TwoIds]}

\* The optional keys of LambdaStack's project_config one at a time, and the
\* required ones left out.
LambdaCases ==
    LambdaConfigs
        \cup {[LambdaOk EXCEPT !.function_handler = "other.handler"],
              [LambdaOk EXCEPT !.function_handler = "absent"],
              [LambdaOk EXCEPT !.code_from_asset = "absent"],
              [LambdaOk EXCEPT !.lambda_function_name = "absent"],
              [LambdaOk EXCEPT !.bucket_layer_name = TRUE, !.layers = 1],
              [LambdaOk EXCEPT !.layers = 1],
              [LambdaOk EXCEPT !.role = [TwoIds EXCEPT !.arns_given = TRUE, !.managed_policy_arns = <<"arn1", "arn2">>]],
              [LambdaOk EXCEPT !.role = [NoRole EXCEPT !.block = TRUE]],
              [LambdaOk EXCEPT !.s3_trigger = TRUE],
              [LambdaOk EXCEPT !.add_permission_eventbridge = TRUE],
              [LambdaOk EXCEPT !.vpc_id = "vpc-1", !.code_from_asset = "absent"]}

GlueOk == [role_arn |-> FALSE, role_ids |-> 1, role_arns |-> 1, script_location |-> TRUE, local_script_path |-> FALSE, create |-> <<[name |-> "c1", connection_type |-> "JDBC"]>>, use |-> <<"u1", "">>, default_arguments |-> ("--extra-jars" :> <<"x.jar">>), additional_python_modules |-> <<"m1", "m2">>, extra_py_files |-> <<>>, extra_jars |-> <<"j1">>, extra_files |-> <<>>]

GlueConfigs ==
    {GlueOk,
     [GlueOk EXCEPT !.script_location = FALSE],
     [GlueOk EXCEPT !.script_location = FALSE, !.local_script_path = TRUE],
     [GlueOk EXCEPT !.role_arns = 2],
     [GlueOk EXCEPT !.role_arn = TRUE, !.role_arns = 2],
     [GlueOk EXCEPT !.create = <<[name |-> "c1", connection_type |-> "JDBC"], [name |-> "", connection_type |-> "JDBC"]>>]}

\* The connections, the default arguments and the list options of
\* GlueJobStack's project_config varied.
GlueCases ==
    GlueConfigs
        \cup {[GlueOk EXCEPT !.create = <<[name |-> "c1", connection_type |-> "JDBC"], [name |-> "c2", connection_type |-> ""]>>],
              [GlueOk EXCEPT !.create = <<[name |-> "c1", connection_type |-> "JDBC"], [name |-> "c1", connection_type |-> "JDBC"]>>],
              [GlueOk EXCEPT !.create = <<[name |-> "c2", connection_type |-> "JDBC"], [name |-> "c1", connection_type |-> "JDBC"]>>, !.use = <<"", "u2", "u1">>],
              [GlueOk EXCEPT !.create = <<>>, !.use = <<"">>],
              [GlueOk EXCEPT !.default_arguments = NoArguments],
              [GlueOk EXCEPT !.default_arguments = NoArguments, !.additional_python_modules = <<>>, !.extra_jars = <<>>],
              [GlueOk EXCEPT !.default_arguments = ("--extra-jars" :> <<>>) @@ ("--job-language" :> <<"python">>), !.extra_files = <<"f1">>],
              [GlueOk EXCEPT !.default_arguments = [key \in ArgKeys |-> <<"x">>], !.extra_py_files = <<"p1", "p2", "p3">>, !.extra_files = <<"f1">>],
              [GlueOk EXCEPT !.role_arns = 2, !.script_location = FALSE]}

\* A resource group of the configuration file: the key is absent, holds an
\* empty mapping, lacks stack_name, lacks project_config, or is complete.
Groups == {"absent", "empty", "no_stack_name", "no_project_config", "ok"}

GatewayOk(key, resources_methods) == [settings |-> TRUE, api_key_config |-> key, resources_methods |-> resources_methods]

Config(region, account, lambda_stack, api_gtw_stack, glue_stack, lambda, gateway, glue) == [aws_region |-> region, aws_account_id |-> account, lambda_stack |-> lambda_stack, api_gtw_stack |-> api_gtw_stack, glue_stack |-> glue_stack, lambda |-> lambda, gateway |-> gateway, glue |-> glue]

\* Complete files whose gateway group runs over every list of entries.
GatewayConfigs ==
    {Config(TRUE, TRUE, "ok", "ok", g, LambdaOk, GatewayOk(k, r), GlueOk) :
        g \in {"absent", "ok"}, k \in {KeyOff, KeyImport},
        r \in SeqsUpTo(Entries, MaxEntries)}

\* Complete files whose gateway group runs over the lists of edge entries.
EdgeConfigs ==
    {Config(TRUE, TRUE, "ok", "ok", "absent", LambdaOk, GatewayOk(k, r), GlueOk) :
        k \in {KeyOff, KeyImport}, r \in SeqsUpTo(EdgeEntries, MaxEntries)}

\* Complete files whose access-key block and stage settings vary.
KeyedConfigs ==
    {Config(TRUE, TRUE, "ok", "ok", "absent", LambdaOk, [settings |-> s, api_key_config |-> k, resources_methods |-> r], GlueOk) :
        s \in BOOLEAN, k \in KeyConfigs, r \in SeqsUpTo(Entries, 1)}

\* Files whose top-level keys and groups vary.
AppConfigs ==
    {Config(region, account, l, a, g, lc, GatewayOk(KeyOff, <<ListEntry(P_a, "GET"), ListEntry(P_ab, "GET")>>), gc) :
        region \in BOOLEAN, account \in BOOLEAN,
        l \in Groups, a \in Groups, g \in Groups,
        lc \in LambdaConfigs, gc \in GlueConfigs}

\* Complete files whose LambdaStack and GlueJobStack settings vary.
StackConfigs ==
    {Config(TRUE, TRUE, "ok", "absent", g, lc, GatewayOk(KeyOff, <<>>), gc) :
        g \in {"absent", "ok"}, lc \in LambdaCases, gc \in GlueCases}

--------------------------------------------------------------------------
(* The run of app.py.                                                     *)

VARIABLES
    config,                 \* the parsed configuration file
    pc,                     \* the statement app.py is at
    started,                \* the stacks whose constructor was entered, in order
    stacks,                 \* the stacks whose constructor returned, in order
    synthed,                \* app.synth() was called
    lambdaStack,            \* what LambdaStack created
    glueStack,              \* what GlueJobStack created
    restApi,                \* the RestApi construct exists
    keys,                   \* keys imported, keys created, plans built, keys attached
    api_key_required_flag,  \* the local of that name, once assigned
    tree,                   \* the resource tree under api.root
    idx,                    \* the position of the loop over resources_methods
    processed,              \* the positions whose iteration was entered, in order
    before,                 \* the tree as the last iteration found it
    last                    \* the outcome of the last iteration

vars == <<config, pc, started, stacks, synthed, lambdaStack, glueStack, restApi, keys, api_key_required_flag, tree, idx, processed, before, last>>

NoKeys == [imported |-> 0, created |-> 0, plans |-> 0, attached |-> 0]

NoOutcome == [ok |-> TRUE, node |-> None, target |-> None, stage |-> "none"]

Init ==
    /\ config \in GatewayConfigs \cup EdgeConfigs \cup KeyedConfigs \cup AppConfigs \cup StackConfigs
    /\ pc = "validate"
    /\ started = <<>>
    /\ stacks = <<>>
    /\ synthed = FALSE
    /\ lambdaStack = NoLambda
    /\ glueStack = NoGlue
    /\ restApi = FALSE
    /\ keys = NoKeys
    /\ api_key_required_flag = FALSE
    /\ tree = EmptyTree
    /\ idx = 1
    /\ processed = <<>>
    /\ before = EmptyTree
    /\ last = NoOutcome

\* config.get(group): the group is present and not empty.
Present(group) == group \notin {"absent", "empty"}

\* The asserts without those on the optional groups.
ValidRequiredOnly(c) ==
    /\ c.aws_region
    /\ c.aws_account_id
    /\ c.lambda_stack \in {"no_project_config", "ok"}

\* The asserts on the configuration.
Valid(c) ==
    /\ c.aws_region
    /\ c.aws_account_id
    /\ c.lambda_stack \in {"no_project_config", "ok"}
    /\ Present(c.api_gtw_stack) => c.api_gtw_stack \in {"no_project_config", "ok"}
    /\ Present(c.glue_stack) => c.glue_stack \in {"no_project_config", "ok"}

\* The statement after the LambdaStack call, and after the ApiGwStack call.
AfterLambda(c) ==
    IF Present(c.api_gtw_stack) THEN "apigw"
    ELSE IF Present(c.glue_stack) THEN "glue" ELSE "synth"

AfterApiGw(c) == IF Present(c.glue_stack) THEN "glue" ELSE "synth"

Validate ==
    /\ pc = "validate"
    /\ pc' = IF Valid(config) THEN "lambda" ELSE "failed"
    /\ UNCHANGED <<config, started, stacks, synthed, lambdaStack, glueStack, restApi, keys, api_key_required_flag, tree, idx, processed, before, last>>

BuildLambdaStack ==
    /\ pc = "lambda"
    /\ IF config.lambda_stack # "ok"
       THEN /\ pc' = "failed"
            /\ UNCHANGED <<started, stacks, lambdaStack>>
       ELSE LET r == LambdaAssemble(config.lambda)
            IN  /\ started' = Append(started, "lambda")
                /\ lambdaStack' = r
                /\ stacks' = IF r.ok THEN Append(stacks, "lambda") ELSE stacks
                /\ pc' = IF r.ok THEN AfterLambda(config) ELSE "failed"
    /\ UNCHANGED <<config, synthed, glueStack, restApi, keys, api_key_required_flag, tree, idx, processed, before, last>>

\* ApiGwStack.__init__ up to the RestApi: the stage settings and the
\* access-key block are read, the usage plan's keys only when the key is on.
ApiGwBegin ==
    /\ pc = "apigw"
    /\ IF config.api_gtw_stack # "ok"
       THEN /\ pc' = "failed"
            /\ UNCHANGED <<started, restApi>>
       ELSE LET k == config.gateway.api_key_config
                enable == k.block /\ k.enable_api_key
                read == config.gateway.settings /\ (enable => k.usage_plan)
            IN  /\ started' = Append(started, "apigw")
                /\ restApi' = read
                /\ pc' = IF read THEN "key" ELSE "failed"
    /\ UNCHANGED <<config, stacks, synthed, lambdaStack, glueStack, keys, api_key_required_flag, tree, idx, processed, before, last>>

\* The key block without the check of api_key_name: a key is created
\* whether or not it has a name.
AccessKeyNoNameCheck(k) ==
    IF ~(k.block /\ k.enable_api_key)
    THEN [ok |-> TRUE, imported |-> 0, created |-> 0, plans |-> 0, flag |-> FALSE]
    ELSE IF k.api_key_id
    THEN [ok |-> TRUE, imported |-> 1, created |-> 0, plans |-> 1, flag |-> TRUE]
    ELSE [ok |-> TRUE, imported |-> 0, created |-> 1, plans |-> 1, flag |-> TRUE]

\* The key block with two independent ifs: a key is imported when the id is
\* given and a key is created when the name is given.
AccessKeyBoth(k) ==
    IF ~(k.block /\ k.enable_api_key)
    THEN [ok |-> TRUE, imported |-> 0, created |-> 0, plans |-> 0, flag |-> FALSE]
    ELSE IF ~k.api_key_id /\ ~k.api_key_name
    THEN [ok |-> FALSE, imported |-> 0, created |-> 0, plans |-> 0, flag |-> FALSE]
    ELSE [ok |-> TRUE, imported |-> IF k.api_key_id THEN 1 ELSE 0,
          created |-> IF k.api_key_name THEN 1 ELSE 0, plans |-> 1, flag |-> TRUE]

\* The access-key block: import the key by id, or create it from its name,
\* then one usage plan with the key attached; what it builds, whether it
\* raised, and the flag the binds get.
AccessKey(k) ==
    IF ~(k.block /\ k.enable_api_key)
    THEN [ok |-> TRUE, imported |-> 0, created |-> 0, plans |-> 0, flag |-> FALSE]
    ELSE IF k.api_key_id
    THEN [ok |-> TRUE, imported |-> 1, created |-> 0, plans |-> 1, flag |-> TRUE]
    ELSE IF ~k.api_key_name
    THEN [ok |-> FALSE, imported |-> 0, created |-> 0, plans |-> 0, flag |-> FALSE]
    ELSE [ok |-> TRUE, imported |-> 0, created |-> 1, plans |-> 1, flag |-> TRUE]

BuildAccessKey ==
    /\ pc = "key"
    /\ LET r == AccessKey(config.gateway.api_key_config)
       IN  /\ keys' = [imported |-> keys.imported + r.imported,
                       created |-> keys.created + r.created,
                       plans |-> keys.plans + r.plans,
                       attached |-> keys.attached + r.plans]
           /\ api_key_required_flag' = r.flag
           /\ pc' = IF r.ok THEN "entries" ELSE "failed"
    /\ UNCHANGED <<config, started, stacks, synthed, lambdaStack, glueStack, restApi, tree, idx, processed, before, last>>

\* The loop body in a try/except that goes on to the next entry.
ProcessEntryStepSwallow ==
    /\ pc = "entries"
    /\ idx <= Len(config.gateway.resources_methods)
    /\ LET r == ProcessEntry(tree, config.gateway.resources_methods[idx], api_key_required_flag)
       IN  /\ tree' = r.t
           /\ before' = tree
           /\ last' = [ok |-> r.ok, node |-> r.node, target |-> r.target, stage |-> r.stage]
           /\ processed' = Append(processed, idx)
           /\ idx' = idx + 1
           /\ pc' = "entries"
    /\ UNCHANGED <<config, started, stacks, synthed, lambdaStack, glueStack, restApi, keys, api_key_required_flag>>

\* One iteration of the loop over resources_methods.
ProcessEntryStep ==
    /\ pc = "entries"
    /\ idx <= Len(config.gateway.resources_methods)
    /\ LET r == ProcessEntry(tree, config.gateway.resources_methods[idx], api_key_required_flag)
       IN  /\ tree' = r.t
           /\ before' = tree
           /\ last' = [ok |-> r.ok, node |-> r.node, target |-> r.target, stage |-> r.stage]
           /\ processed' = Append(processed, idx)
           /\ idx' = IF r.ok THEN idx + 1 ELSE idx
           /\ pc' = IF r.ok THEN "entries" ELSE "failed"
    /\ UNCHANGED <<config, started, stacks, synthed, lambdaStack, glueStack, restApi, keys, api_key_required_flag>>

\* The loop is over: ApiGwStack.__init__ returns to app.py.
ApiGwEnd ==
    /\ pc = "entries"
    /\ idx > Len(config.gateway.resources_methods)
    /\ stacks' = Append(stacks, "apigw")
    /\ pc' = AfterApiGw(config)
    /\ UNCHANGED <<config, started, synthed, lambdaStack, glueStack, restApi, keys, api_key_required_flag, tree, idx, processed, before, last>>

BuildGlueStack ==
    /\ pc = "glue"
    /\ IF config.glue_stack # "ok"
       THEN /\ pc' = "failed"
            /\ UNCHANGED <<started, stacks, glueStack>>
       ELSE LET r == GlueAssemble(config.glue)
            IN  /\ started' = Append(started, "glue")
                /\ glueStack' = r
                /\ stacks' = IF r.ok THEN Append(stacks, "glue") ELSE stacks
                /\ pc' = IF r.ok THEN "synth" ELSE "failed"
    /\ UNCHANGED <<config, synthed, lambdaStack, restApi, keys, api_key_required_flag, tree, idx, processed, before, last>>

Synth ==
    /\ pc = "synth"
    /\ synthed' = TRUE
    /\ pc' = "done"
    /\ UNCHANGED <<config, started, stacks, lambdaStack, glueStack, restApi, keys, api_key_required_flag, tree, idx, processed, before, last>>

Next ==
    \/ Validate
    \/ BuildLambdaStack
    \/ ApiGwBegin
    \/ BuildAccessKey
    \/ ProcessEntryStep
    \/ ApiGwEnd
    \/ BuildGlueStack
    \/ Synth

Spec == Init /\ [][Next]_vars

--------------------------------------------------------------------------
(* Reading the tree and the last iteration.                               *)

RECURSIVE PathOf(_, _)
\* The parts from the root down to a node.
PathOf(t, node) ==
    IF node = Root THEN <<>>
    ELSE Append(PathOf(t, t.nodes[node].parent), t.nodes[node].part)

PathSet(t) == {PathOf(t, i) : i \in NodeIds(t)} \cup {<<>>}

NodeAt(t, path) ==
    IF path = <<>> THEN Root
    ELSE CHOOSE i \in NodeIds(t) : PathOf(t, i) = path

NoDuplicateSiblings(t) ==
    \A i, j \in NodeIds(t) :
        (t.nodes[i].parent = t.nodes[j].parent /\ t.nodes[i].part = t.nodes[j].part)
            => i = j

Ran == processed # <<>>

LastEntry == config.gateway.resources_methods[processed[Len(processed)]]

IsProxy(e) == e.form = "dict" /\ e.integration_type = "http_proxy"

LastParts == Split(LastEntry.path)

Prefix(parts, d) == SubSeq(parts, 1, d)

\* How many leading parts of the last entry's path were nodes before it ran.
Shared ==
    CHOOSE d \in 0..Len(LastParts) :
        /\ Prefix(LastParts, d) \in PathSet(before)
        /\ \A d2 \in 0..Len(LastParts) :
               Prefix(LastParts, d2) \in PathSet(before) => d2 <= d

NewNodes == {i \in NodeIds(tree) : i > Len(before.nodes)}

\* The new nodes on the entry's own path (the wildcard child of a proxy
\* entry is not one of them).
WalkNodes == {i \in NewNodes : Len(PathOf(tree, i)) <= Len(LastParts)}

\* C1: nodes keep their identity and no node has two children with one
\* name; an entry descends into the nodes that exist for the leading parts
\* of its path and creates a node only for a part that is missing: the
\* nodes of the shared prefix are the nodes that were there, every new node
\* lies on the entry's path below that prefix, a path that was resolved
\* before resolves to the same node with no node created, and the walk
\* never stops at a part that exists.
C1_SharedPrefixReused ==
    /\ NoDuplicateSiblings(tree)
    /\ \A i \in NodeIds(before) : i \in NodeIds(tree) /\ tree.nodes[i] = before.nodes[i]
    /\ (Ran /\ last.stage # "url") =>
        /\ \A d \in 0..Shared :
               NodeAt(tree, Prefix(LastParts, d)) = NodeAt(before, Prefix(LastParts, d))
        /\ \A i \in WalkNodes :
               /\ PathOf(tree, i) = Prefix(LastParts, Len(PathOf(tree, i)))
               /\ Len(PathOf(tree, i)) > Shared
        /\ last.stage # "walk" =>
               /\ last.node = NodeAt(tree, LastParts)
               /\ Cardinality(WalkNodes) = Len(LastParts) - Shared
        /\ last.stage = "walk" =>
               /\ Shared + Cardinality(WalkNodes) < Len(LastParts)
               /\ Prefix(LastParts, Shared + Cardinality(WalkNodes) + 1) \notin PathSet(tree)

\* A second entry ran to its end, found part of its path and created the rest.
C1_Witness ==
    /\ Len(processed) = 2
    /\ last.ok
    /\ Shared >= 1
    /\ Cardinality(WalkNodes) >= 1

--------------------------------------------------------------------------
(* Binding.                                                               *)

EntryAt(i) == config.gateway.resources_methods[i]

\* The parts of the node an entry binds on: its own path, and below it the
\* wildcard child for a proxy entry whose path does not end in the marker.
BindParts(e) ==
    LET parts == Split(e.path)
    IN  IF IsProxy(e) /\ parts[Len(parts)] # <<PROXY>>
        THEN Append(parts, <<PROXY>>) ELSE parts

Bound(t, node, verb) == {i \in MethodsOn(t, node) : t.methods[i].verb = verb}

\* The first two entries name the same node with different verbs.
TwoVerbsOneNode ==
    /\ Len(config.gateway.resources_methods) >= 2
    /\ EntryAt(1).path = EntryAt(2).path
    /\ IsProxy(EntryAt(1)) = IsProxy(EntryAt(2))
    /\ EntryAt(1).method # EntryAt(2).method
    /\ IsProxy(EntryAt(1)) => EntryAt(1).http_proxy_url # "absent"
    /\ IsProxy(EntryAt(2)) => EntryAt(2).http_proxy_url # "absent"

\* C2: when two entries bind different verbs on one node, the second bind
\* succeeds too, and the node then holds both verbs and exactly one OPTIONS
\* method: the OPTIONS method that is there already is no error.
C2_SecondVerbShares ==
    (TwoVerbsOneNode /\ Len(processed) = 2 /\ last.target # None) =>
        /\ last.ok
        /\ Cardinality(Bound(tree, last.target, EntryAt(1).method)) = 1
        /\ Cardinality(Bound(tree, last.target, EntryAt(2).method)) = 1
        /\ Cardinality(Bound(tree, last.target, "OPTIONS")) = 1

\* The verb of the last entry was bound on the node it names before it ran.
Rebinding ==
    /\ Ran
    /\ last.stage # "url"
    /\ BindParts(LastEntry) \in PathSet(before)
    /\ Bound(before, NodeAt(before, BindParts(LastEntry)), LastEntry.method) # {}

\* C3: no node ever holds a verb twice, and an entry whose verb is already
\* bound on the node it names raises and leaves every node's methods and
\* handlers as they were.
C3_RebindFails ==
    /\ \A i, j \in 1..Len(tree.methods) :
           (tree.methods[i].node = tree.methods[j].node
                /\ tree.methods[i].verb = tree.methods[j].verb) => i = j
    /\ Rebinding =>
           /\ ~last.ok
           /\ pc = "failed"
           /\ tree.methods = before.methods

\* Two entries with one path and one verb: the primary add_method of the
\* second refused the verb.
C3_Witness ==
    /\ Rebinding
    /\ Len(processed) = 2
    /\ EntryAt(1).path = EntryAt(2).path
    /\ EntryAt(1).method = EntryAt(2).method
    /\ last.stage = "method"

\* The methods the forwarding handlers are.
Forwarding(t) == {i \in 1..Len(t.methods) : t.methods[i].itype = "http_proxy"}

IsWildcard(t, node) == node # Root /\ t.nodes[node].part = <<PROXY>>

C5_MissingUrlNoMutation ==
    (Ran /\ IsProxy(LastEntry) /\ LastEntry.http_proxy_url = "absent") =>
        /\ ~last.ok
        /\ pc = "failed"
        /\ tree = before

\* The entry without a URL came second, after an entry that built nodes.
C5_Witness ==
    /\ Len(processed) = 2
    /\ IsProxy(LastEntry) /\ LastEntry.http_proxy_url = "absent"
    /\ before.nodes # <<>>
    /\ LastParts \notin PathSet(before)

--------------------------------------------------------------------------
(* The run as a whole.                                                    *)

RECURSIVE Assemble(_, _, _)
\* The loop over resources_methods from a given tree: the tree it leaves
\* and whether every entry ran to its end.
Assemble(t, resources_methods, api_key_required) ==
    IF resources_methods = <<>> THEN [ok |-> TRUE, t |-> t]
    ELSE LET r == ProcessEntry(t, Head(resources_methods), api_key_required)
         IN  IF ~r.ok THEN [ok |-> FALSE, t |-> r.t]
             ELSE Assemble(r.t, Tail(resources_methods), api_key_required)

\* A tree up to the order its constructs were created in: the paths of its
\* nodes, and on each path the methods with their handlers.
Shape(t) ==
    [nodes |-> PathSet(t),
     methods |-> {[path |-> PathOf(t, t.methods[i].node),
                   verb |-> t.methods[i].verb,
                   itype |-> t.methods[i].itype,
                   target |-> t.methods[i].target,
                   api_key_required |-> t.methods[i].api_key_required] :
                      i \in 1..Len(t.methods)}]

Perms(n) == {f \in [1..n -> 1..n] : \A i, j \in 1..n : f[i] = f[j] => i = j}

Permuted(q, f) == [i \in 1..Len(q) |-> q[f[i]]]

LoopDone == pc = "entries" /\ idx > Len(config.gateway.resources_methods)

LoopFailed == Ran /\ ~last.ok

\* C8: when the loop ran to its end, it does so on every permutation of the
\* list and leaves a tree of the same shape; when it raised, it raises on
\* every permutation.
C8_OrderIndependent ==
    \A f \in Perms(Len(config.gateway.resources_methods)) :
        LET other == Assemble(EmptyTree, Permuted(config.gateway.resources_methods, f), api_key_required_flag)
        IN  /\ LoopDone => (other.ok /\ Shape(other.t) = Shape(tree))
            /\ LoopFailed => ~other.ok

KeyBlock == config.gateway.api_key_config

Enabled == KeyBlock.block /\ KeyBlock.enable_api_key

\* C6: with the key enabled and neither api_key_id nor api_key_name, the
\* run never reaches the loop over the entries: it is before or in the key
\* block or has failed, with no node, no method, no entry taken up, no key
\* and no usage plan.
C6_NamelessKeyFailsFirst ==
    (Enabled /\ ~KeyBlock.api_key_id /\ ~KeyBlock.api_key_name) =>
        /\ pc \in {"validate", "lambda", "apigw", "key", "failed"}
        /\ processed = <<>>
        /\ tree = EmptyTree
        /\ keys = NoKeys
        /\ ~synthed

\* The key block itself raised, with an entry waiting.
C6_Witness ==
    /\ Enabled /\ ~KeyBlock.api_key_id /\ ~KeyBlock.api_key_name
    /\ restApi
    /\ pc = "failed"
    /\ Len(config.gateway.resources_methods) = 1

\* The stacks app.py builds for a configuration, in its order.
Expected ==
    <<"lambda">>
        \o (IF Present(config.api_gtw_stack) THEN <<"apigw">> ELSE <<>>)
        \o (IF Present(config.glue_stack) THEN <<"glue">> ELSE <<>>)

\* C7: the iterations are entered in list order with none left out; an
\* entry that raised ends the run there: no later entry, no later stack,
\* no synth, nothing more to do.  synth is called only when every stack of
\* the configuration was built and every entry ran to its end.
C7_FailFast ==
    /\ \A i \in 1..Len(processed) : processed[i] = i
    /\ "apigw" \in {stacks[i] : i \in 1..Len(stacks)} =>
           (Len(processed) = Len(config.gateway.resources_methods) /\ last.ok)
    /\ LoopFailed =>
           /\ pc = "failed"
           /\ idx = Len(processed)
           /\ "apigw" \notin {stacks[i] : i \in 1..Len(stacks)}
           /\ "glue" \notin {started[i] : i \in 1..Len(started)}
    /\ pc = "failed" => (~synthed /\ ~ENABLED Next)
    /\ synthed =>
           /\ stacks = Expected /\ started = Expected
           /\ Present(config.api_gtw_stack) =>
                  (Len(processed) = Len(config.gateway.resources_methods) /\ last.ok)

\* The first of two entries raised, with the glue stack still to build.
C7_Witness ==
    /\ pc = "failed"
    /\ Len(processed) = 1 /\ ~last.ok
    /\ Len(config.gateway.resources_methods) = 2
    /\ config.glue_stack = "ok"

\* C9: from the key block on, the flag is the configured enable_api_key
\* (off when the block is absent); every primary method carries it; with it
\* off no key and no usage plan exist.
C9_KeyFlagUniform ==
    /\ (pc = "entries" \/ Ran) => api_key_required_flag = Enabled
    /\ \A i \in 1..Len(tree.methods) :
           tree.methods[i].itype # "mock" => tree.methods[i].api_key_required = Enabled
    /\ ~Enabled => keys = NoKeys

\* With the key on, a direct and a proxy method are both bound with it.
C9_Witness ==
    /\ Enabled
    /\ \E i, j \in 1..Len(tree.methods) :
           /\ tree.methods[i].itype = "lambda" /\ tree.methods[i].api_key_required
           /\ tree.methods[j].itype = "http_proxy" /\ tree.methods[j].api_key_required

\* A key the asserts of app.py name is missing.
MissingRequiredKey(c) ==
    \/ ~c.aws_region
    \/ ~c.aws_account_id
    \/ c.lambda_stack \in {"absent", "empty", "no_stack_name"}
    \/ c.api_gtw_stack = "no_stack_name"
    \/ c.glue_stack = "no_stack_name"

\* Nothing in the configuration makes a stack that is built raise.
Sound(c) ==
    /\ ~MissingRequiredKey(c)
    /\ c.lambda_stack = "ok" /\ LambdaAssemble(c.lambda).ok
    /\ Present(c.api_gtw_stack) =>
           /\ c.api_gtw_stack = "ok"
           /\ c.gateway.settings
           /\ (c.gateway.api_key_config.block /\ c.gateway.api_key_config.enable_api_key)
                  => c.gateway.api_key_config.usage_plan
           /\ AccessKey(c.gateway.api_key_config).ok
           /\ Assemble(EmptyTree, c.gateway.resources_methods, AccessKey(c.gateway.api_key_config).flag).ok
    /\ Present(c.glue_stack) =>
           (c.glue_stack = "ok" /\ GlueAssemble(c.glue).ok)

\* C10: with a required key missing no constructor is entered and the run
\* fails in the validation; an optional group that is absent or empty is
\* never entered, a run whose other groups are sound never fails, and a
\* run that ends has called synth with exactly the groups present built,
\* in order.
C10_ValidateThenSkip ==
    /\ MissingRequiredKey(config) =>
           (started = <<>> /\ stacks = <<>> /\ ~synthed /\ pc \in {"validate", "failed"})
    /\ ~Present(config.api_gtw_stack) =>
           ("apigw" \notin {started[i] : i \in 1..Len(started)} /\ ~restApi)
    /\ ~Present(config.glue_stack) =>
           "glue" \notin {started[i] : i \in 1..Len(started)}
    /\ Sound(config) => pc # "failed"
    /\ pc = "done" => (synthed /\ stacks = Expected)

\* The gateway group is empty: lambda and glue are built and handed off.
C10_Witness ==
    /\ pc = "done"
    /\ config.api_gtw_stack = "empty"
    /\ stacks = <<"lambda", "glue">>
    /\ synthed

--------------------------------------------------------------------------
(* Empty segments.                                                        *)

\* The parts of a path that hold at least one character.
Segments(path) == SelectSeq(Split(path), LAMBDA part : part # <<>>)

HasEmptySegment(path) == \E i \in 1..Len(Split(path)) : Split(path)[i] = <<>>

\* C11: an entry whose path holds an empty segment (the empty path, a
\* leading, trailing or doubled "/") is resolved along its non-empty
\* segments only: the walk does not stop at the empty segment, no node is
\* created for it, the entry resolves to the node of its non-empty
\* segments, and the empty path resolves to the root with no node created
\* on the way.
C11_EmptySegmentsSkipped ==
    (Ran /\ last.stage # "url" /\ HasEmptySegment(LastEntry.path)) =>
        /\ last.stage # "walk"
        /\ \A i \in NewNodes : tree.nodes[i].part # <<>>
        /\ last.node = NodeAt(tree, Segments(LastEntry.path))
        /\ LastEntry.path = <<>> => (last.node = Root /\ WalkNodes = {})

--------------------------------------------------------------------------
(* One key, one plan.                                                     *)

\* The access-key block of ApiGwStack.__init__ was left without raising.
KeyBlockPassed == pc = "entries" \/ Ran \/ (\E i \in 1..Len(stacks) : stacks[i] = "apigw")

\* C12: a run never imports and creates a key both, and never builds a
\* second key or plan; once the access-key block of an enabled run is
\* passed there is one key, one plan, and the key is attached to the plan:
\* the key is the imported one when api_key_id is given, api_key_name given
\* or not, and the one created from api_key_name when api_key_id is not.
C12_OneKeyOnePlan ==
    /\ keys.imported + keys.created <= 1
    /\ keys.plans <= 1
    /\ keys.attached <= keys.plans
    /\ (KeyBlockPassed /\ Enabled) =>
           /\ keys.plans = 1
           /\ keys.attached = 1
           /\ KeyBlock.api_key_id => (keys.imported = 1 /\ keys.created = 0)
           /\ ~KeyBlock.api_key_id =>
                  (KeyBlock.api_key_name /\ keys.created = 1 /\ keys.imported = 0)

\* An enabled run that gives the id and the name both imported its key.
C12_Witness ==
    /\ KeyBlockPassed
    /\ Enabled
    /\ KeyBlock.api_key_id
    /\ KeyBlock.api_key_name
    /\ keys = [imported |-> 1, created |-> 0, plans |-> 1, attached |-> 1]

--------------------------------------------------------------------------
(* The minimal LambdaStack.                                               *)

\* LambdaStack.__init__ was entered.
LambdaEntered == \E i \in 1..Len(started) : started[i] = "lambda"

\* The three keys of the unit test and none of the optional blocks.
Minimal(project_config) ==
    /\ project_config.lambda_function_name # "absent"
    /\ project_config.code_from_asset # "absent"
    /\ project_config.function_handler # "absent"
    /\ project_config.vpc_id = "absent"
    /\ project_config.layers = 0
    /\ ~project_config.role.block
    /\ ~project_config.s3_trigger
    /\ ~project_config.add_permission_eventbridge

\* C13: LambdaStack built from the three keys alone does not raise and
\* holds one function with the configured handler and name, one role with
\* the one default managed policy, no layer, no VPC, no security group and
\* no subnet selection; whatever the configuration, a VPC, a security group
\* or a subnet selection is there only if vpc_id is given.
C13_MinimalLambda ==
    LambdaEntered =>
        /\ Minimal(config.lambda) =>
               /\ lambdaStack.ok
               /\ lambdaStack.functions = 1
               /\ lambdaStack.handler = config.lambda.function_handler
               /\ lambdaStack.function_name = config.lambda.lambda_function_name
               /\ lambdaStack.role
               /\ lambdaStack.policies = <<[id |-> "PolicyBasic", arn |-> "arn:aws:iam::aws:policy/service-role/AWSLambdaBasicExecutionRole"]>>
               /\ lambdaStack.layers = 0
               /\ ~lambdaStack.vpc
               /\ ~lambdaStack.security_group
               /\ ~lambdaStack.vpc_subnets
        /\ (lambdaStack.vpc \/ lambdaStack.security_group \/ lambdaStack.vpc_subnets)
               => config.lambda.vpc_id # "absent"

\* The unit test's configuration was assembled, and so was one with a
\* handler of another name.
C13_Witness ==
    /\ LambdaEntered
    /\ Minimal(config.lambda)
    /\ config.lambda.function_handler = "other.handler"
    /\ lambdaStack.ok
    /\ lambdaStack.handler = "other.handler"

--------------------------------------------------------------------------
(* The wildcard child that is there already.                              *)

\* The last entry is a proxy entry on a plain path whose {proxy+} child
\* existed before the entry ran.
WildcardChildExists ==
    /\ Ran
    /\ IsProxy(LastEntry)
    /\ last.stage \notin {"url", "walk"}
    /\ LastParts[Len(LastParts)] # <<PROXY>>
    /\ Append(LastParts, <<PROXY>>) \in PathSet(before)

\* C14: a proxy entry whose resolved node has a {proxy+} child already does
\* not fail on creating that child: it creates no node and binds its
\* handler on the child that is there.
C14_WildcardChildReused ==
    WildcardChildExists =>
        /\ last.stage # "child"
        /\ NewNodes = {}
        /\ last.target = NodeAt(before, Append(LastParts, <<PROXY>>))

--------------------------------------------------------------------------
(* The ids of the imported functions.                                     *)

\* 'LAMBDA_' + path.upper().replace('/', '_') written out for the paths of
\* the configurations.
ImportIdOf(path) ==
    CASE path \in {P_a, P_A} -> <<"LAMBDA_", "A">>
      [] path \in {P_ab, P_a_b} -> <<"LAMBDA_", "A", "_", "B">>
      [] path = P_ap -> <<"LAMBDA_", "A", "_", "{PROXY+}">>
      [] path = P_apb -> <<"LAMBDA_", "A", "_", "{PROXY+}", "_", "B">>

\* The methods the direct handlers are.
Direct(t) == {i \in 1..Len(t.methods) : t.methods[i].itype = "lambda"}

\* The last entry is a direct one that was resolved to a node.
DirectBind == Ran /\ ~IsProxy(LastEntry) /\ last.stage # "walk"

\* C15: the functions imported into the stack have pairwise different ids
\* and every bound direct handler has an import of its own; a direct entry
\* imports under 'LAMBDA_' + its path in upper case with '_' for '/',
\* whatever its verb; and a direct entry whose id is taken (by the same
\* path under another verb, by a path in another letter case, by 'a_b'
\* against 'a/b') raises at the import, binds nothing and ends the run.
C15_ImportIdsUnique ==
    /\ \A i, j \in 1..Len(tree.imports) : tree.imports[i] = tree.imports[j] => i = j
    /\ Cardinality(Direct(tree)) <= Len(tree.imports)
    /\ DirectBind =>
           LET id == ImportIdOf(LastEntry.path)
               taken == \E i \in 1..Len(before.imports) : before.imports[i] = id
           IN  /\ ~taken => tree.imports = Append(before.imports, id)
               /\ taken =>
                      /\ ~last.ok
                      /\ last.stage = "import"
                      /\ pc = "failed"
                      /\ tree.imports = before.imports
                      /\ tree.methods = before.methods

\* 'a/b' was bound, then 'a_b' was refused at the import.
C15_Witness ==
    /\ DirectBind
    /\ Len(processed) = 2
    /\ EntryAt(1).path = P_ab
    /\ EntryAt(2).path = P_a_b
    /\ last.stage = "import"
    /\ tree.imports = <<ImportIdOf(P_ab)>>

--------------------------------------------------------------------------
(* The preflight method and the access key.                               *)

\* The methods add_methods binds with the mock integration.
Preflight(t) == {i \in 1..Len(t.methods) : t.methods[i].itype = "mock"}

\* C16 as stated: no method whose verb is OPTIONS carries the access-key
\* requirement, whatever the run.
C16_OptionsNeverKeyed ==
    \A i \in 1..Len(tree.methods) :
        tree.methods[i].verb = "OPTIONS" => ~tree.methods[i].api_key_required

\* C16: the OPTIONS method add_methods binds beside a primary method never
\* carries the access-key requirement, and every primary method carries
\* the flag of the run.  A method with the verb OPTIONS carries the
\* requirement only as the primary method of an entry whose own verb is
\* OPTIONS, in a run with the key on that has failed at the preflight of
\* that entry.
C16_PreflightNeverKeyed ==
    /\ \A i \in Preflight(tree) :
           tree.methods[i].verb = "OPTIONS" /\ ~tree.methods[i].api_key_required
    /\ \A i \in 1..Len(tree.methods) :
           i \notin Preflight(tree) =>
               tree.methods[i].api_key_required = api_key_required_flag
    /\ \A i \in 1..Len(tree.methods) :
           (tree.methods[i].verb = "OPTIONS" /\ tree.methods[i].api_key_required) =>
               /\ i \notin Preflight(tree)
               /\ i = Len(tree.methods)
               /\ Enabled
               /\ pc = "failed"
               /\ LastEntry.method = "OPTIONS"
               /\ last.stage = "preflight"

\* With the key on, a node holds a primary method with the requirement and
\* its preflight method without.
C16_Witness ==
    /\ Enabled
    /\ last.ok
    /\ \E i \in Preflight(tree) : \E j \in 1..Len(tree.methods) :
           /\ tree.methods[j].node = tree.methods[i].node
           /\ tree.methods[j].verb = LastEntry.method
           /\ tree.methods[j].api_key_required
           /\ ~tree.methods[i].api_key_required

--------------------------------------------------------------------------
(* The Glue job comes last.                                               *)

\* GlueJobStack.__init__ was entered.
GlueEntered == \E i \in 1..Len(started) : started[i] = "glue"

\* The three things GlueJobStack raises a ValueError for.
RoleMismatch(project_config) ==
    ~project_config.role_arn /\ project_config.role_ids # project_config.role_arns

NoScript(project_config) ==
    ~project_config.script_location /\ ~project_config.local_script_path

BadConnection(project_config) ==
    \E i \in 1..Len(project_config.create) :
        project_config.create[i].name = "" \/ project_config.create[i].connection_type = ""

\* C17: GlueJobStack that raised has created no job, and it raises a
\* ValueError for ids and managed_policy_arns of different lengths, for a
\* missing script and for a connection without name or connection_type.
\* The job that is created lists the connections created, in the order of
\* the configuration, then the names under 'use' that are not empty; and
\* each key of the configured default_arguments has its configured value,
\* a list option being joined with "," only under a key that is not
\* configured.
C17_GlueJobLast ==
    GlueEntered =>
        LET c == config.glue
            made == [i \in 1..Len(c.create) |-> c.create[i].name]
        IN  /\ ~glueStack.ok => ~glueStack.job
            /\ glueStack.error = "ValueError" => ~glueStack.job
            /\ (RoleMismatch(c) \/ NoScript(c) \/ BadConnection(c)) =>
                   (glueStack.error = "ValueError" /\ ~glueStack.ok)
            /\ glueStack.job =>
                   /\ glueStack.ok
                   /\ glueStack.created = made
                   /\ glueStack.connections = made \o SelectSeq(c.use, LAMBDA n : n # "")
                   /\ \A key \in DOMAIN c.default_arguments :
                          /\ key \in DOMAIN glueStack.default_arguments
                          /\ glueStack.default_arguments[key] = c.default_arguments[key]
                   /\ \A key \in ArgKeys \ DOMAIN c.default_arguments :
                          IF ListOf(c, key) = <<>>
                          THEN key \notin DOMAIN glueStack.default_arguments
                          ELSE /\ key \in DOMAIN glueStack.default_arguments
                               /\ Len(glueStack.default_arguments[key]) = 2 * Len(ListOf(c, key)) - 1
                               /\ \A i \in 1..Len(ListOf(c, key)) :
                                      glueStack.default_arguments[key][2 * i - 1] = ListOf(c, key)[i]

\* A job whose --extra-jars is the configured value although extra_jars is
\* given, whose --additional-python-modules is the joined list, and whose
\* connections are the created one and the one non-empty name under 'use'.
C17_Witness ==
    /\ GlueEntered
    /\ glueStack.job
    /\ config.glue.extra_jars = <<"j1">>
    /\ glueStack.default_arguments["--extra-jars"] = <<"x.jar">>
    /\ glueStack.default_arguments["--additional-python-modules"] = <<"m1", ",", "m2">>
    /\ config.glue.use = <<"u1", "">>
    /\ glueStack.connections = <<"c1", "u1">>

====
